---- MODULE Spec2Model ----
(***************************************************************************)
(* Connection lifecycle of the streamthing client and server streams       *)
(* (WebSocket variant, src/index.js lines 317-532).                        *)
(*                                                                         *)
(* A stream object owns a variable `socket` naming its current transport   *)
(* and an AbortController per transport through whose signal all four      *)
(* listeners (open, message, error, close) of that transport are bound.    *)
(* Transports live in a small pool of slots; a slot is recycled once its   *)
(* transport is CLOSED, its listeners are removed and the stream no longer *)
(* refers to it, since no event can ever be observed on it again.          *)
(*                                                                         *)
(* Further sections model the construction calls (createServerStream,     *)
(* createToken), the stateless HTTP server stream (lines 640-660) and the  *)
(* legacy challenge-response client (lines 58-115).                        *)
(***************************************************************************)
EXTENDS Integers, Sequences, FiniteSets, TLC

\* ------------------------------------------------------------- bounds
MaxSock == 2
MaxSends == 2
MaxDisconnects == 2
MaxTimers == 2
MaxLiveSends == 1
MaxTokens == 2
MaxHttpCalls == 2
MaxLegacySent == 5
MaxLegacyAuth == 2

\* ------------------------------------------------------------- domains
Slots == 1..MaxSock
NoSocket == 0
Events == {"message", "other"}
Payloads == {"test-success", "p2"}
Callbacks == {"cb1", "cb2"}
NoCb == "undefined"
SentEvents == {"message"}
Messages == {"test-success"}
Channels == {"test-channel"}
Token == "token"
ServerId == "id"
Password == "password"

\* An envelope as it travels on the wire (the JSON text of the object).
Env(t, e, p, c, n) == [type |-> t, event |-> e, payload |-> p, channel |-> c, tag |-> n]

\* Inbound data a transport can deliver to a stream.  "#garbage" is text
\* that is not JSON, "#null" is the JSON text null, "unknown" an envelope of
\* a type the handler does not know.
InboundTypes == {"#garbage", "#null", "unknown", "error", "server-authenticated"}
ServerInbound == {Env(t, "", "", "", 0) : t \in InboundTypes}
ClientInbound ==
    {Env(t, "", "", "", 0) : t \in InboundTypes \ {"server-authenticated"}}
      \cup {Env("message", e, p, "", 0) : e \in Events, p \in Payloads}

\* JSON.parse(message.data) throws a SyntaxError on text that is not JSON.
JsonParseThrows(raw) == raw.type = "#garbage"

\* data.type on the parsed value throws a TypeError when the value is null.
TypeAccessThrows(raw) == raw.type = "#null"

\* ------------------------------------------------------------- transports
\* ready: readyState; aborted: the signal its listeners are bound through is
\* aborted; closeCalls: close() invocations made on it; wire: the data handed
\* to it by send(); authed: it has delivered a server-authenticated envelope
\* to its message listener; stalled: the connection has silently died and
\* fires no event until it is closed locally; rejected: it has delivered an
\* error envelope while its credential was not accepted.  rpos, rauth and
\* inbox are the relay's side of the connection: envelopes read from it,
\* whether its credential was accepted, and the envelopes in flight towards
\* the stream.
FreeSlot ==
    [ready |-> "NONE", aborted |-> FALSE, closeCalls |-> 0, wire |-> <<>>,
     authed |-> FALSE, stalled |-> FALSE, rejected |-> FALSE,
     rpos |-> 0, rauth |-> FALSE, inbox |-> <<>>]
NewSocket == [FreeSlot EXCEPT !.ready = "CONNECTING"]

\* socket.close(): starts the closing handshake on a CONNECTING or OPEN
\* transport, does nothing on a CLOSING or CLOSED one.
SockClose(socks, s) ==
    [socks EXCEPT ![s].closeCalls = @ + 1,
                  ![s].stalled = FALSE,
                  ![s].ready = IF @ \in {"CONNECTING", "OPEN"} THEN "CLOSING" ELSE @]

\* controller.abort(): removes every listener bound through the signal.
CtrlAbort(socks, s) == [socks EXCEPT ![s].aborted = TRUE]

\* socket.send(data): queues data on an OPEN transport, throws on a
\* CONNECTING one and silently discards on a CLOSING or CLOSED one.
SockSend(socks, s, data) ==
    IF socks[s].ready = "OPEN" THEN [socks EXCEPT ![s].wire = Append(@, data)] ELSE socks

SockSendThrows(socks, s) == socks[s].ready = "CONNECTING"

\* A transport on which no event can be observed any more is forgotten.
Forget(socks, cur) ==
    [i \in Slots |->
        IF i # cur /\ socks[i].ready = "CLOSED" /\ socks[i].aborted
        THEN FreeSlot ELSE socks[i]]

HasFree(socks) == \E i \in Slots : socks[i].ready = "NONE"
FirstFree(socks) == CHOOSE i \in Slots : socks[i].ready = "NONE" /\ \A j \in Slots : j < i => socks[j].ready # "NONE"

\* new WebSocket(url) with the four listeners bound through a new controller.
SockCreate(socks, n) == [socks EXCEPT ![n] = NewSocket]

\* A message event can be delivered on an OPEN transport, and on a CLOSING
\* one only when the closing handshake was started locally by close().
CanReceive(sock) ==
    /\ ~sock.stalled
    /\ sock.ready = "OPEN" \/ (sock.ready = "CLOSING" /\ sock.closeCalls > 0)

\* ------------------------------------------------------------- state
VARIABLES
    c_socket,      \* client: `socket`, the slot of the current transport
    c_socks,       \* client: the transports, with their controller's state
    listeners,     \* client: `listeners`, event name -> callback
    c_timers,      \* client: pending setTimeout(connect, 5000) timers
    c_called,      \* client: callbacks invoked by the latest message listener run
    c_out,         \* client: outcome of the latest listener run
    c_ndisc        \* client: number of disconnect() calls made

cvars == <<c_socket, c_socks, listeners, c_timers, c_called, c_out, c_ndisc>>

VARIABLES
    s_socket,        \* server: `socket`
    s_socks,         \* server: the transports, with their controller's state
    isAuthenticated, \* server: `isAuthenticated`
    messageQueue,    \* server: `messageQueue`
    s_out,           \* server: outcome of the latest listener run
    s_nsend,         \* server: number of send() calls made
    s_queued,        \* server: tags of the envelopes pushed on the queue, in order
    s_log            \* server: emit envelopes handed to an OPEN transport, in order

svars == <<s_socket, s_socks, isAuthenticated, messageQueue, s_out, s_nsend, s_queued, s_log>>

VARIABLE
    tokenExpired     \* the expiry time signed into the client's token has passed

\* Construction: the environment the library is loaded in and the outcome of
\* the calls of createServerStream() and createToken().
VARIABLES
    windowDefined,   \* typeof window !== "undefined": the code runs in a browser
    s_ctor,          \* outcome of the latest createServerStream() call
    s_made,          \* what createServerStream() has created so far
    t_ctor,          \* outcome of the latest createToken() call
    t_signed         \* number of tokens signed by encodeJWT()

kvars == <<windowDefined, s_ctor, s_made, t_ctor, t_signed>>

\* The stateless (HTTP) server stream: the send() calls made on it.
VARIABLE
    h_calls          \* per send() call: its position, the response, what it logged

\* The legacy challenge-response client stream.
VARIABLES
    l_auth,          \* an "auth" event has been handled
    l_handlers,      \* "challenge-response" handlers registered so far
    l_cr,            \* "none", "ignored" or "handled": the challenge-response events so far
    l_sent           \* the messages emitted, in order

lvars == <<l_auth, l_handlers, l_cr, l_sent>>

ovars == <<h_calls, lvars>>

evars == <<tokenExpired, kvars, ovars>>

vars == <<cvars, svars, evars>>

\* ------------------------------------------------------------- client stream
ClientInit ==
    /\ c_socket = 1
    /\ c_socks = [i \in Slots |-> IF i = 1 THEN NewSocket ELSE FreeSlot]
    /\ listeners = [e \in Events |-> NoCb]
    /\ c_timers = 0
    /\ c_called = {}
    /\ c_out = "none"
    /\ c_ndisc = 0

\* connect(): closes the current transport and aborts its controller, then
\* creates the next transport with fresh listeners.
ClientSupersede(socks, s) ==
    IF s # NoSocket THEN CtrlAbort(SockClose(socks, s), s) ELSE socks

ClientConnect ==
    LET old == ClientSupersede(c_socks, c_socket) IN
    /\ HasFree(old)
    /\ c_socket' = FirstFree(old)
    /\ c_socks' = Forget(SockCreate(old, FirstFree(old)), FirstFree(old))

\* The reconnect timer armed by a close event expires and runs connect().
ClientTimerFires ==
    /\ c_timers > 0
    /\ c_timers' = c_timers - 1
    /\ ClientConnect
    /\ UNCHANGED <<listeners, c_called, c_out, c_ndisc>>
    /\ UNCHANGED <<svars, evars>>

\* "open" listener: sends the authenticate envelope on the current socket.
ClientOnOpen(socks) ==
    /\ c_socks' = SockSend(socks, c_socket, Env("authenticate", "", Token, "", 0))
    /\ c_out' = IF SockSendThrows(socks, c_socket) THEN "threw" ELSE "ok"
    /\ UNCHANGED <<c_socket, listeners, c_timers, c_called, c_ndisc>>

\* Mutant: every bound callback is invoked, whatever the envelope's event.
ClientDispatchFanOut(map, raw) ==
    {<<map[e], raw.payload>> : e \in {x \in Events : map[x] # NoCb}}

\* const callback = listeners.get(data.event); callback && callback(data.payload)
ClientDispatch(map, raw) ==
    IF map[raw.event] # NoCb THEN {<<map[raw.event], raw.payload>>} ELSE {}

\* Mutant: an error envelope makes the stream give up: it removes its
\* listeners from the transport.
ClientOnMessageErrorGivesUp(socks, raw) ==
    /\ c_socks' = IF raw.type = "error" THEN CtrlAbort(socks, c_socket) ELSE socks
    /\ IF JsonParseThrows(raw) \/ TypeAccessThrows(raw)
       THEN c_out' = "threw" /\ c_called' = {}
       ELSE IF raw.type = "error"
       THEN c_out' = "logged" /\ c_called' = {}
       ELSE IF raw.type = "message"
       THEN /\ c_out' = "ok"
            /\ c_called' = ClientDispatch(listeners, raw)
       ELSE c_out' = "ok" /\ c_called' = {}
    /\ UNCHANGED <<c_socket, listeners, c_timers, c_ndisc>>

\* "message" listener.
ClientOnMessage(socks, raw) ==
    /\ c_socks' = socks
    /\ IF JsonParseThrows(raw) \/ TypeAccessThrows(raw)
       THEN c_out' = "threw" /\ c_called' = {}
       ELSE IF raw.type = "error"
       THEN c_out' = "logged" /\ c_called' = {}
       ELSE IF raw.type = "message"
       THEN /\ c_out' = "ok"
            /\ c_called' = ClientDispatch(listeners, raw)
       ELSE c_out' = "ok" /\ c_called' = {}
    /\ UNCHANGED <<c_socket, listeners, c_timers, c_ndisc>>

\* Mutant: the error listener arms a reconnect timer as well.
ClientOnErrorReconnects(socks) ==
    /\ c_timers < MaxTimers
    /\ c_socks' = socks
    /\ c_out' = "logged"
    /\ c_timers' = c_timers + 1
    /\ UNCHANGED <<c_socket, listeners, c_called, c_ndisc>>

\* "error" listener: logs.
ClientOnError(socks) ==
    /\ c_socks' = socks
    /\ c_out' = "logged"
    /\ UNCHANGED <<c_socket, listeners, c_timers, c_called, c_ndisc>>

\* Mutant: the close listener arms no timer.
ClientOnCloseNoTimer(socks) ==
    /\ c_socks' = socks
    /\ UNCHANGED <<c_socket, listeners, c_timers, c_called, c_out, c_ndisc>>

\* "close" listener: arms the reconnect timer.
ClientOnClose(socks) ==
    /\ c_timers < MaxTimers
    /\ c_socks' = socks
    /\ c_timers' = c_timers + 1
    /\ UNCHANGED <<c_socket, listeners, c_called, c_out, c_ndisc>>

\* No listener is bound any more: the event changes the transport only.
ClientNoListener(socks) ==
    /\ c_socks' = Forget(socks, c_socket)
    /\ UNCHANGED <<c_socket, listeners, c_timers, c_called, c_out, c_ndisc>>

\* The transport in slot i becomes OPEN and fires its open event.
ClientTransportOpen(i) ==
    /\ c_socks[i].ready = "CONNECTING"
    /\ LET socks == [c_socks EXCEPT ![i].ready = "OPEN"] IN
       IF c_socks[i].aborted THEN ClientNoListener(socks) ELSE ClientOnOpen(socks)
    /\ UNCHANGED <<svars, evars>>

\* The transport in slot i fires a message event carrying raw.  An error
\* envelope on a connection the relay has not accepted marks the transport.
ClientDeliver(socks0, i, raw) ==
    /\ CanReceive(socks0[i])
    /\ LET socks == IF raw.type = "error" /\ ~socks0[i].rauth
                    THEN [socks0 EXCEPT ![i].rejected = TRUE] ELSE socks0 IN
       IF socks0[i].aborted THEN ClientNoListener(socks) ELSE ClientOnMessage(socks, raw)
    /\ UNCHANGED <<svars, evars>>

ClientTransportMessage(i, raw) == ClientDeliver(c_socks, i, raw)

\* The transport in slot i fires an error event (a failure of the
\* connection, which a close event follows).
ClientTransportError(i) ==
    /\ c_socks[i].ready \in {"CONNECTING", "OPEN"}
    /\ IF c_socks[i].aborted THEN ClientNoListener(c_socks) ELSE ClientOnError(c_socks)
    /\ UNCHANGED <<svars, evars>>

\* The relay starts the closing handshake on the transport in slot i.
ClientTransportClosing(i) ==
    /\ c_socks[i].ready = "OPEN"
    /\ c_socks' = [c_socks EXCEPT ![i].ready = "CLOSING"]
    /\ UNCHANGED <<c_socket, listeners, c_timers, c_called, c_out, c_ndisc>>
    /\ UNCHANGED <<svars, evars>>

\* The transport in slot i becomes CLOSED and fires its close event.
ClientTransportClose(i) ==
    /\ c_socks[i].ready \in {"CONNECTING", "OPEN", "CLOSING"}
    /\ LET socks == [c_socks EXCEPT ![i].ready = "CLOSED"] IN
       IF c_socks[i].aborted THEN ClientNoListener(socks) ELSE ClientOnClose(socks)
    /\ UNCHANGED <<svars, evars>>

\* receive(event, callback)
ClientReceive(e, cb) ==
    /\ listeners' = [listeners EXCEPT ![e] = cb]
    /\ UNCHANGED <<c_socket, c_socks, c_timers, c_called, c_out, c_ndisc>>
    /\ UNCHANGED <<svars, evars>>

\* disconnect()
ClientDisconnect ==
    /\ c_ndisc < MaxDisconnects
    /\ c_ndisc' = c_ndisc + 1
    /\ c_socks' = IF c_socket # NoSocket
                  THEN SockClose(CtrlAbort(c_socks, c_socket), c_socket)
                  ELSE c_socks
    /\ UNCHANGED <<c_socket, listeners, c_timers, c_called, c_out>>
    /\ UNCHANGED <<svars, evars>>

ClientNext ==
    \/ ClientTimerFires
    \/ \E i \in Slots : ClientTransportOpen(i)
    \/ \E i \in Slots, raw \in ClientInbound : ClientTransportMessage(i, raw)
    \/ \E i \in Slots : ClientTransportError(i)
    \/ \E i \in Slots : ClientTransportClosing(i)
    \/ \E i \in Slots : ClientTransportClose(i)
    \/ \E e \in Events, cb \in Callbacks : ClientReceive(e, cb)
    \/ ClientDisconnect

\* ------------------------------------------------------------- server stream
ServerInit ==
    /\ s_socket = 1
    /\ s_socks = [i \in Slots |-> IF i = 1 THEN NewSocket ELSE FreeSlot]
    /\ isAuthenticated = FALSE
    /\ messageQueue = <<>>
    /\ s_out = "none"
    /\ s_nsend = 0
    /\ s_queued = <<>>
    /\ s_log = <<>>

\* socket.send(data) on the server's current socket, recorded in the log of
\* handed emit envelopes when the transport takes it.
ServerSockSend(st, s, data) ==
    [socks |-> SockSend(st.socks, s, data),
     log |-> IF st.socks[s].ready = "OPEN" /\ data.type = "emit"
             THEN Append(st.log, [tag |-> data.tag, authed |-> st.socks[s].authed])
             ELSE st.log,
     queue |-> st.queue,
     threw |-> st.threw \/ SockSendThrows(st.socks, s)]

\* Mutant: the flush takes the newest envelope first (pop() for shift()).
RECURSIVE ServerFlushNewestFirst(_, _)
ServerFlushNewestFirst(st, s) ==
    IF st.queue = <<>> \/ st.threw THEN st
    ELSE ServerFlushNewestFirst(
            ServerSockSend([st EXCEPT !.queue = SubSeq(@, 1, Len(@) - 1)], s,
                           st.queue[Len(st.queue)]), s)

\* Mutant: the flush empties the queue without sending.
ServerFlushDiscards(st, s) == [st EXCEPT !.queue = <<>>]

\* Mutant: the flush sends the head of the queue only (if for while).
ServerFlushOne(st, s) ==
    IF st.queue = <<>> \/ st.threw THEN st
    ELSE ServerSockSend([st EXCEPT !.queue = Tail(@)], s, Head(st.queue))

\* while (messageQueue.length > 0) socket.send(messageQueue.shift());
RECURSIVE ServerFlush(_, _)
ServerFlush(st, s) ==
    IF st.queue = <<>> \/ st.threw THEN st
    ELSE ServerFlush(ServerSockSend([st EXCEPT !.queue = Tail(@)], s, Head(st.queue)), s)

\* Mutant: connect() leaves the old transport alone.
ServerSupersedeKeepsOld(socks, s) == socks

\* Mutant: connect() closes the old transport and leaves its listeners bound.
ServerSupersedeNoAbort(socks, s) ==
    IF s # NoSocket THEN SockClose(socks, s) ELSE socks

\* connect(): aborts the current controller and closes the current transport,
\* clears isAuthenticated, then creates the next transport.
ServerSupersede(socks, s) ==
    IF s # NoSocket THEN SockClose(CtrlAbort(socks, s), s) ELSE socks

ServerConnect ==
    LET old == ServerSupersede(s_socks, s_socket) IN
    /\ HasFree(old)
    /\ isAuthenticated' = FALSE
    /\ s_socket' = FirstFree(old)
    /\ s_socks' = Forget(SockCreate(old, FirstFree(old)), FirstFree(old))

\* Mutant: the open listener sends nothing.
ServerOnOpenSilent(socks) ==
    /\ s_socks' = socks
    /\ s_out' = "ok"
    /\ UNCHANGED <<s_socket, isAuthenticated, messageQueue, s_nsend, s_queued, s_log>>

\* "open" listener: sends the server-authenticate envelope.
ServerOnOpen(socks) ==
    /\ s_socks' = SockSend(socks, s_socket, Env("server-authenticate", ServerId, Password, "", 0))
    /\ s_out' = IF SockSendThrows(socks, s_socket) THEN "threw" ELSE "ok"
    /\ UNCHANGED <<s_socket, isAuthenticated, messageQueue, s_nsend, s_queued, s_log>>

\* "message" listener.
ServerOnMessage(socks, raw) ==
    IF JsonParseThrows(raw) \/ TypeAccessThrows(raw)
    THEN /\ s_out' = "threw"
         /\ s_socks' = socks
         /\ UNCHANGED <<s_socket, isAuthenticated, messageQueue, s_nsend, s_queued, s_log>>
    ELSE IF raw.type = "error"
    THEN /\ s_out' = "logged"
         /\ s_socks' = socks
         /\ UNCHANGED <<s_socket, isAuthenticated, messageQueue, s_nsend, s_queued, s_log>>
    ELSE IF raw.type = "server-authenticated"
    THEN LET st == ServerFlush([socks |-> socks, log |-> s_log,
                                queue |-> messageQueue, threw |-> FALSE], s_socket) IN
         /\ isAuthenticated' = TRUE
         /\ s_socks' = st.socks
         /\ s_log' = st.log
         /\ messageQueue' = st.queue
         /\ s_out' = IF st.threw THEN "threw" ELSE "ok"
         /\ UNCHANGED <<s_socket, s_nsend, s_queued>>
    ELSE /\ s_out' = "ok"
         /\ s_socks' = socks
         /\ UNCHANGED <<s_socket, isAuthenticated, messageQueue, s_nsend, s_queued, s_log>>

\* "error" listener: logs.
ServerOnError(socks) ==
    /\ s_socks' = socks
    /\ s_out' = "logged"
    /\ UNCHANGED <<s_socket, isAuthenticated, messageQueue, s_nsend, s_queued, s_log>>

\* "close" listener: clears isAuthenticated.
ServerOnClose(socks) ==
    /\ s_socks' = socks
    /\ isAuthenticated' = FALSE
    /\ UNCHANGED <<s_socket, messageQueue, s_out, s_nsend, s_queued, s_log>>

ServerNoListener(socks) ==
    /\ s_socks' = Forget(socks, s_socket)
    /\ UNCHANGED <<s_socket, isAuthenticated, messageQueue, s_out, s_nsend, s_queued, s_log>>

ServerTransportOpen(i) ==
    /\ s_socks[i].ready = "CONNECTING"
    /\ ~s_socks[i].stalled
    /\ LET socks == [s_socks EXCEPT ![i].ready = "OPEN"] IN
       IF s_socks[i].aborted THEN ServerNoListener(socks) ELSE ServerOnOpen(socks)
    /\ UNCHANGED <<cvars, evars>>

\* A server-authenticated envelope marks the transport it arrives on.
ServerDeliver(socks0, i, raw) ==
    /\ CanReceive(socks0[i])
    /\ LET socks == IF raw.type = "server-authenticated"
                    THEN [socks0 EXCEPT ![i].authed = TRUE] ELSE socks0 IN
       IF socks0[i].aborted THEN ServerNoListener(socks) ELSE ServerOnMessage(socks, raw)
    /\ UNCHANGED <<cvars, evars>>

ServerTransportMessage(i, raw) == ServerDeliver(s_socks, i, raw)

ServerTransportError(i) ==
    /\ s_socks[i].ready \in {"CONNECTING", "OPEN"}
    /\ ~s_socks[i].stalled
    /\ IF s_socks[i].aborted THEN ServerNoListener(s_socks) ELSE ServerOnError(s_socks)
    /\ UNCHANGED <<cvars, evars>>

ServerTransportClosing(i) ==
    /\ s_socks[i].ready = "OPEN"
    /\ ~s_socks[i].stalled
    /\ s_socks' = [s_socks EXCEPT ![i].ready = "CLOSING"]
    /\ UNCHANGED <<s_socket, isAuthenticated, messageQueue, s_out, s_nsend, s_queued, s_log>>
    /\ UNCHANGED <<cvars, evars>>

ServerTransportClose(i) ==
    /\ s_socks[i].ready \in {"CONNECTING", "OPEN", "CLOSING"}
    /\ ~s_socks[i].stalled
    /\ LET socks == [s_socks EXCEPT ![i].ready = "CLOSED"] IN
       IF s_socks[i].aborted THEN ServerNoListener(socks) ELSE ServerOnClose(socks)
    /\ UNCHANGED <<cvars, evars>>

\* The connection in slot i dies silently: the transport keeps its
\* readyState and fires no further event.
ServerTransportStall(i) ==
    /\ s_socks[i].ready \in {"CONNECTING", "OPEN"}
    /\ ~s_socks[i].stalled
    /\ s_socks' = [s_socks EXCEPT ![i].stalled = TRUE]
    /\ UNCHANGED <<s_socket, isAuthenticated, messageQueue, s_out, s_nsend, s_queued, s_log>>
    /\ UNCHANGED <<cvars, evars>>

\* Mutant: the watchdog reconnects on every tick.
WatchdogAlways == TRUE

\* Mutant: the watchdog looks at the transport only, not at isAuthenticated.
WatchdogIgnoresAuth ==
    s_socket = NoSocket \/ s_socks[s_socket].ready # "OPEN"

\* The watchdog's test: the stream needs a reconnect.
WatchdogUnhealthy ==
    s_socket = NoSocket \/ s_socks[s_socket].ready # "OPEN" \/ ~isAuthenticated

\* setInterval(..., 10000) tick.
ServerWatchdog ==
    /\ IF WatchdogUnhealthy
       THEN /\ ServerConnect
            /\ UNCHANGED <<messageQueue, s_out, s_nsend, s_queued, s_log>>
       ELSE UNCHANGED svars
    /\ UNCHANGED <<cvars, evars>>

\* Mutant: send() does not look at isAuthenticated.
SendDirectUnauthenticated == s_socket # NoSocket /\ s_socks[s_socket].ready = "OPEN"

\* The test of send(): the envelope can go out at once.
SendDirect == s_socket # NoSocket /\ s_socks[s_socket].ready = "OPEN" /\ isAuthenticated

\* send(channel, event, message)
ServerSend(ch, e, m) ==
    /\ s_nsend < MaxSends
    /\ s_nsend' = s_nsend + 1
    /\ LET payload == Env("emit", e, m, ch, s_nsend + 1) IN
       IF SendDirect
       THEN LET st == ServerSockSend([socks |-> s_socks, log |-> s_log,
                                      queue |-> messageQueue, threw |-> FALSE],
                                     s_socket, payload) IN
            /\ s_socks' = st.socks
            /\ s_log' = st.log
            /\ UNCHANGED <<messageQueue, s_queued>>
       ELSE /\ messageQueue' = Append(messageQueue, payload)
            /\ s_queued' = Append(s_queued, s_nsend + 1)
            /\ UNCHANGED <<s_socks, s_log>>
    /\ UNCHANGED <<s_socket, isAuthenticated, s_out>>
    /\ UNCHANGED <<cvars, evars>>

ServerNext ==
    \/ ServerWatchdog
    \/ \E i \in Slots : ServerTransportOpen(i)
    \/ \E i \in Slots, raw \in ServerInbound : ServerTransportMessage(i, raw)
    \/ \E i \in Slots : ServerTransportError(i)
    \/ \E i \in Slots : ServerTransportClosing(i)
    \/ \E i \in Slots : ServerTransportClose(i)
    \/ \E ch \in Channels, e \in SentEvents, m \in Messages : ServerSend(ch, e, m)

\* ------------------------------------------------------------- specifications
\* Everything createServerStream() creates before it returns.
ServerParts == {"socket", "controller", "queue", "interval"}

\* Both streams have been constructed in a trusted context.
Constructed ==
    /\ windowDefined = FALSE
    /\ s_ctor = "returned"
    /\ s_made = ServerParts
    /\ t_ctor = "none"
    /\ t_signed = 0

\* No send() call has been made on the stateless stream.
HttpCalls == 1..MaxHttpCalls
HttpIdle == [pc |-> "idle", status |-> "none", json |-> FALSE, logged |-> FALSE, fetches |-> 0]
HttpInit == h_calls = [k \in HttpCalls |-> HttpIdle]

\* The legacy client has been created and no event has reached it.
LegacyInit ==
    /\ l_auth = FALSE
    /\ l_handlers = 0
    /\ l_cr = "none"
    /\ l_sent = <<>>

EnvInit == tokenExpired = FALSE /\ Constructed /\ HttpInit /\ LegacyInit

Init == ClientInit /\ ServerInit /\ EnvInit

\* The two stream objects share no state: a behaviour exercises one of them.
Next ==
    \/ ServerInit /\ ClientTimerFires
    \/ \E i \in Slots : ServerInit /\ ClientTransportOpen(i)
    \/ \E i \in Slots, raw \in ClientInbound : ServerInit /\ ClientTransportMessage(i, raw)
    \/ \E i \in Slots : ServerInit /\ ClientTransportError(i)
    \/ \E i \in Slots : ServerInit /\ ClientTransportClosing(i)
    \/ \E i \in Slots : ServerInit /\ ClientTransportClose(i)
    \/ \E e \in Events, cb \in Callbacks : ServerInit /\ ClientReceive(e, cb)
    \/ ServerInit /\ ClientDisconnect
    \/ ClientInit /\ ServerWatchdog
    \/ \E i \in Slots : ClientInit /\ ServerTransportOpen(i)
    \/ \E i \in Slots, raw \in ServerInbound : ClientInit /\ ServerTransportMessage(i, raw)
    \/ \E i \in Slots : ClientInit /\ ServerTransportError(i)
    \/ \E i \in Slots : ClientInit /\ ServerTransportClosing(i)
    \/ \E i \in Slots : ClientInit /\ ServerTransportClose(i)
    \/ \E ch \in Channels, e \in SentEvents, m \in Messages : ClientInit /\ ServerSend(ch, e, m)

Spec == Init /\ [][Next]_vars

\* ------------------------------------------------------------- relay
\* The relay reads the next envelope a client connection has sent: a valid
\* authenticate envelope makes the connection an authenticated subscriber.
RelayReadClient(i) ==
    /\ c_socks[i].ready \in {"OPEN", "CLOSING"}
    /\ c_socks[i].rpos < Len(c_socks[i].wire)
    /\ LET env == c_socks[i].wire[c_socks[i].rpos + 1] IN
       c_socks' = [c_socks EXCEPT
                     ![i].rpos = @ + 1,
                     ![i].rauth = @ \/ (/\ env.type = "authenticate"
                                         /\ env.payload = Token
                                         /\ ~tokenExpired)]
    /\ UNCHANGED <<c_socket, listeners, c_timers, c_called, c_out, c_ndisc>>
    /\ UNCHANGED <<svars, evars>>

\* createToken() signs an expiry of 300 seconds into the token; the stream is
\* given that one token at construction.  Time passes the expiry.
TokenExpires ==
    /\ ~tokenExpired
    /\ tokenExpired' = TRUE
    /\ UNCHANGED <<cvars, svars, kvars, ovars>>

\* The envelope the relay forwards to subscribers for an accepted emit.
Forwarded(env) == Env("message", env.event, env.payload, "", 0)

\* The relay reads the next envelope a server connection has sent: a valid
\* server-authenticate is answered with server-authenticated; an emit from
\* an authenticated connection is forwarded to the client connections that
\* are authenticated at that moment; anything else is answered with error.
RelayReadServer(j) ==
    /\ s_socks[j].ready \in {"OPEN", "CLOSING"}
    /\ s_socks[j].rpos < Len(s_socks[j].wire)
    /\ LET env == s_socks[j].wire[s_socks[j].rpos + 1]
           read == [s_socks EXCEPT ![j].rpos = @ + 1] IN
       IF env.type = "server-authenticate" /\ env.event = ServerId /\ env.payload = Password
       THEN /\ s_socks' = [read EXCEPT ![j].rauth = TRUE,
                                        ![j].inbox = Append(@, Env("server-authenticated", "", "", "", 0))]
            /\ UNCHANGED c_socks
       ELSE IF env.type = "emit" /\ s_socks[j].rauth
       THEN /\ s_socks' = read
            /\ c_socks' = [i \in Slots |->
                             IF c_socks[i].rauth /\ c_socks[i].ready = "OPEN"
                             THEN [c_socks[i] EXCEPT !.inbox = Append(@, Forwarded(env))]
                             ELSE c_socks[i]]
       ELSE /\ s_socks' = [read EXCEPT ![j].inbox = Append(@, Env("error", "", "", "", 0))]
            /\ UNCHANGED c_socks
    /\ UNCHANGED <<c_socket, listeners, c_timers, c_called, c_out, c_ndisc>>
    /\ UNCHANGED <<s_socket, isAuthenticated, messageQueue, s_out, s_nsend, s_queued, s_log>>
    /\ UNCHANGED evars

\* The envelope at the head of a connection's inbox reaches the stream.
ClientInboxDeliver(i) ==
    /\ c_socks[i].inbox # <<>>
    /\ ClientDeliver([c_socks EXCEPT ![i].inbox = Tail(@)], i, Head(c_socks[i].inbox))

ServerInboxDeliver(j) ==
    /\ s_socks[j].inbox # <<>>
    /\ ServerDeliver([s_socks EXCEPT ![j].inbox = Tail(@)], j, Head(s_socks[j].inbox))

\* ------------------------------------------------------------- end to end
\* runTest(): the client stream is created, the server stream is created,
\* server.send(CHANNEL, "message", "test-success") is called and
\* client.receive("message", cb) is registered, all before any event runs.
TestEmit == Env("emit", "message", "test-success", "test-channel", 1)

InitE2E ==
    /\ c_socket = 1
    /\ c_socks = [i \in Slots |-> IF i = 1 THEN NewSocket ELSE FreeSlot]
    /\ listeners = [e \in Events |-> IF e = "message" THEN "cb1" ELSE NoCb]
    /\ c_timers = 0
    /\ c_called = {}
    /\ c_out = "none"
    /\ c_ndisc = 0
    /\ s_socket = 1
    /\ s_socks = [i \in Slots |-> IF i = 1 THEN NewSocket ELSE FreeSlot]
    /\ isAuthenticated = FALSE
    /\ messageQueue = <<TestEmit>>
    /\ s_out = "none"
    /\ s_nsend = 1
    /\ s_queued = <<1>>
    /\ s_log = <<>>
    /\ EnvInit

\* The connection and authentication steps of both streams, the relay, and
\* the server's watchdog; no transport fails.
NextE2E ==
    \/ \E i \in Slots : ClientTransportOpen(i)
    \/ \E i \in Slots : RelayReadClient(i)
    \/ \E i \in Slots : ClientInboxDeliver(i)
    \/ \E j \in Slots : ServerTransportOpen(j)
    \/ \E j \in Slots : RelayReadServer(j)
    \/ \E j \in Slots : ServerInboxDeliver(j)
    \/ \E j \in Slots : s_socks[j].aborted /\ ServerTransportClose(j)
    \/ ServerWatchdog

SpecE2E == InitE2E /\ [][NextE2E]_vars

\* The client stream alone with the relay's reading of what it sends.  The
\* reconnect timer expires; a closing handshake comes to its end; the relay
\* is assumed to let a connection attempt through and to read what an open
\* connection sent, again and again.
ClientLiveNext ==
    \/ ClientTimerFires
    \/ \E i \in Slots : ClientTransportOpen(i)
    \/ \E i \in Slots, raw \in ClientInbound : ClientTransportMessage(i, raw)
    \/ \E i \in Slots : ClientTransportError(i)
    \/ \E i \in Slots : ClientTransportClosing(i)
    \/ \E i \in Slots : ClientTransportClose(i)
    \/ \E e \in Events, cb \in Callbacks : ClientReceive(e, cb)
    \/ ClientDisconnect
    \/ \E i \in Slots : RelayReadClient(i)
    \/ TokenExpires

SpecClientLive ==
    /\ Init
    /\ [][ClientLiveNext]_vars
    /\ WF_vars(ClientTimerFires)
    /\ WF_vars(\E i \in Slots : c_socks[i].ready = "CLOSING" /\ ClientTransportClose(i))
    /\ SF_vars(ClientTransportOpen(c_socket))
    /\ SF_vars(RelayReadClient(c_socket))

\* The server stream alone, with connections that may die silently.  The
\* watchdog interval keeps ticking; a transport closed locally ends up
\* CLOSED; and the relay is assumed to let a connection attempt through and
\* to answer a server-authenticate envelope again and again.
RelayAnswers ==
    /\ s_socks[s_socket].wire # <<>>
    /\ ServerTransportMessage(s_socket, Env("server-authenticated", "", "", "", 0))

ServerLiveNext ==
    \/ ServerWatchdog
    \/ \E i \in Slots : ServerTransportOpen(i)
    \/ \E i \in Slots, raw \in ServerInbound : ServerTransportMessage(i, raw)
    \/ \E i \in Slots : ServerTransportError(i)
    \/ \E i \in Slots : ServerTransportClosing(i)
    \/ \E i \in Slots : ServerTransportClose(i)
    \/ \E i \in Slots : ServerTransportStall(i)
    \/ \E ch \in Channels, e \in SentEvents, m \in Messages :
          s_nsend < MaxLiveSends /\ ServerSend(ch, e, m)

SpecServerLive ==
    /\ Init
    /\ [][ServerLiveNext]_vars
    /\ WF_vars(ServerWatchdog)
    /\ WF_vars(\E i \in Slots : s_socks[i].aborted /\ ServerTransportClose(i))
    /\ SF_vars(ServerTransportOpen(s_socket))
    /\ SF_vars(RelayAnswers)

\* ------------------------------------------------------------- construction
\* A function that throws does so to its caller; an async function never
\* does: its call returns a promise, rejected when the body throws.
SyncCall(throws) == IF throws THEN "threw" ELSE "returned"
AsyncCall(throws) == IF throws THEN "rejected" ELSE "resolved"

\* Mutant: the environment check is gone.
BrowserCheckSkipped == FALSE

\* if (typeof window !== "undefined") throw new Error(...)
BrowserCheck == windowDefined

\* The server stream object does not exist.
ServerAbsent ==
    /\ s_socket = NoSocket
    /\ s_socks = [i \in Slots |-> FreeSlot]
    /\ isAuthenticated = FALSE
    /\ messageQueue = <<>>
    /\ s_out = "none"
    /\ s_nsend = 0
    /\ s_queued = <<>>
    /\ s_log = <<>>

\* createServerStream(config)
CreateServerStream ==
    /\ s_ctor # "returned"
    /\ s_ctor' = SyncCall(BrowserCheck)
    /\ IF BrowserCheck
       THEN UNCHANGED <<svars, s_made>>
       ELSE /\ s_made' = ServerParts
            /\ s_socket' = 1
            /\ s_socks' = [i \in Slots |-> IF i = 1 THEN NewSocket ELSE FreeSlot]
            /\ UNCHANGED <<isAuthenticated, messageQueue, s_out, s_nsend, s_queued, s_log>>
    /\ UNCHANGED <<cvars, tokenExpired, windowDefined, t_ctor, t_signed, ovars>>

\* createToken({ channel, password }): an async function.
CreateToken ==
    /\ t_signed < MaxTokens
    /\ t_ctor' = AsyncCall(BrowserCheck)
    /\ t_signed' = IF BrowserCheck THEN t_signed ELSE t_signed + 1
    /\ UNCHANGED <<cvars, svars, tokenExpired, windowDefined, s_ctor, s_made, ovars>>

InitCreate ==
    /\ ClientInit
    /\ ServerAbsent
    /\ tokenExpired = FALSE
    /\ windowDefined \in BOOLEAN
    /\ s_ctor = "none"
    /\ s_made = {}
    /\ t_ctor = "none"
    /\ t_signed = 0
    /\ HttpInit
    /\ LegacyInit

\* The two calls, and the events of the server stream once it exists.
NextCreate ==
    \/ CreateServerStream
    \/ CreateToken
    \/ "interval" \in s_made /\ ServerWatchdog
    \/ \E i \in Slots : "socket" \in s_made /\ ServerTransportOpen(i)
    \/ \E i \in Slots, raw \in ServerInbound : "socket" \in s_made /\ ServerTransportMessage(i, raw)
    \/ \E i \in Slots : "socket" \in s_made /\ ServerTransportError(i)
    \/ \E i \in Slots : "socket" \in s_made /\ ServerTransportClosing(i)
    \/ \E i \in Slots : "socket" \in s_made /\ ServerTransportClose(i)
    \/ \E ch \in Channels, e \in SentEvents, m \in Messages :
          s_ctor = "returned" /\ s_nsend < MaxLiveSends /\ ServerSend(ch, e, m)

SpecCreate == InitCreate /\ [][NextCreate]_vars

\* ------------------------------------------------------------- stateless stream
\* send(event, message) of the stateless variant, an async function:
\*   const res = await fetch(url, { method: "POST", ... });
\*   const data = await res.json();
\*   if (!res.ok) console.error(...);
\* The call starts: fetch() issues the request.
HttpSend(k) ==
    /\ h_calls[k].pc = "idle"
    /\ h_calls' = [h_calls EXCEPT ![k].pc = "fetch", ![k].fetches = @ + 1]
    /\ UNCHANGED <<cvars, svars, tokenExpired, kvars, lvars>>

\* The response arrives: fetch() resolves whatever the status, and the body
\* is JSON text or not (an HTML error page of a gateway, an empty body).
HttpResponse(k, status, json) ==
    /\ h_calls[k].pc = "fetch"
    /\ h_calls' = [h_calls EXCEPT ![k].pc = "json", ![k].status = status, ![k].json = json]
    /\ UNCHANGED <<cvars, svars, tokenExpired, kvars, lvars>>

\* No response arrives: fetch() rejects, and so does the call.
HttpNetworkError(k) ==
    /\ h_calls[k].pc = "fetch"
    /\ h_calls' = [h_calls EXCEPT ![k].pc = "rejected"]
    /\ UNCHANGED <<cvars, svars, tokenExpired, kvars, lvars>>

\* res.json() rejects with a SyntaxError when the body is not JSON text.
ResJsonThrows(call) == ~call.json

\* The rest of send() once the body has been read.
HttpAfterBody(call) ==
    IF ResJsonThrows(call) THEN [call EXCEPT !.pc = "rejected"]
    ELSE [call EXCEPT !.pc = "resolved", !.logged = (call.status # "2xx")]

HttpBodyRead(k) ==
    /\ h_calls[k].pc = "json"
    /\ h_calls' = [h_calls EXCEPT ![k] = HttpAfterBody(h_calls[k])]
    /\ UNCHANGED <<cvars, svars, tokenExpired, kvars, lvars>>

NextHttp ==
    \/ \E k \in HttpCalls : HttpSend(k)
    \/ \E k \in HttpCalls, status \in {"2xx", "non2xx"}, json \in BOOLEAN : HttpResponse(k, status, json)
    \/ \E k \in HttpCalls : HttpNetworkError(k)
    \/ \E k \in HttpCalls : HttpBodyRead(k)

SpecHttp == Init /\ [][NextHttp]_vars

\* ------------------------------------------------------------- legacy client
\* Values are symbolic terms: an atom, or the result of a cryptographic
\* operation on an atom under a key.
LegacyId == "id"
LegacyChannel == "channel"
Challenges == {"challenge-1", "challenge-2"}
ServerSecrets == {"server-public-key", "#invalid"}

Atom(a) == [kind |-> "atom", data |-> a, key |-> <<>>]

\* encryptValue(data, key): AES encryption of data under key.
EncryptValue(data, key) == [kind |-> "aes", data |-> data, key |-> key]

\* ECDH.computeSecret(serverSecret, "hex", "hex"): throws on a value that is
\* not a public key.
ComputeSecretThrows(serverSecret) == serverSecret = "#invalid"
ComputeSecret(serverSecret) == <<"ecdh", "client-private-key", serverSecret>>

\* createHmac("sha256", key).update(data).digest("hex"): a keyed digest.
Hmac(key, data) == [kind |-> "hmac", data |-> data, key |-> <<key>>]

\* Mutant: the client answers the challenge with the password itself.
ChallengeResultPlain(password, challenge) == Atom(password)

\* const challengeResult = createHmac("sha256", password).update(challenge).digest("hex")
ChallengeResult(password, challenge) == Hmac(password, challenge)

\* socket.emit(event, ...fields)
Emit(event, fields) == [event |-> event, fields |-> fields]

\* socket.on("modulus-secret-server", ...)
LegacyOnSecret(serverSecret) ==
    /\ Len(l_sent) < MaxLegacySent
    /\ l_sent' = IF ComputeSecretThrows(serverSecret) THEN l_sent
                 ELSE Append(l_sent, Emit("secret-id",
                         <<EncryptValue(LegacyId, ComputeSecret(serverSecret))>>))
    /\ UNCHANGED <<l_auth, l_handlers, l_cr>>
    /\ UNCHANGED <<cvars, svars, tokenExpired, kvars, h_calls>>

\* socket.on("auth", ...): emits the challenge request and registers one more
\* "challenge-response" handler.
LegacyOnAuth ==
    /\ Len(l_sent) < MaxLegacySent
    /\ l_handlers < MaxLegacyAuth
    /\ l_auth' = TRUE
    /\ l_handlers' = l_handlers + 1
    /\ l_sent' = Append(l_sent, Emit("challenge", <<Atom(LegacyId)>>))
    /\ UNCHANGED l_cr
    /\ UNCHANGED <<cvars, svars, tokenExpired, kvars, h_calls>>

\* The authenticate messages one "challenge-response" event makes the client
\* emit: one per registered handler.
RECURSIVE LegacyAnswers(_, _)
LegacyAnswers(n, challenge) ==
    IF n = 0 THEN <<>>
    ELSE <<Emit("authenticate",
                <<Atom(LegacyId), Atom(LegacyChannel), ChallengeResult(Password, challenge)>>)>>
         \o LegacyAnswers(n - 1, challenge)

\* A "challenge-response" event arrives: every registered handler runs.
LegacyOnChallengeResponse(challenge) ==
    /\ Len(l_sent) + l_handlers <= MaxLegacySent
    /\ l_cr' = IF l_handlers > 0 THEN "handled" ELSE IF l_cr = "none" THEN "ignored" ELSE l_cr
    /\ l_sent' = l_sent \o LegacyAnswers(l_handlers, challenge)
    /\ UNCHANGED <<l_auth, l_handlers>>
    /\ UNCHANGED <<cvars, svars, tokenExpired, kvars, h_calls>>

\* socket.on("auth_error", ...) and socket.on("connect_error", ...): log.
LegacyOnError ==
    /\ UNCHANGED lvars
    /\ UNCHANGED <<cvars, svars, tokenExpired, kvars, h_calls>>

NextLegacy ==
    \/ \E serverSecret \in ServerSecrets : LegacyOnSecret(serverSecret)
    \/ LegacyOnAuth
    \/ \E challenge \in Challenges : LegacyOnChallengeResponse(challenge)
    \/ LegacyOnError

SpecLegacy == Init /\ [][NextLegacy]_vars

\* ------------------------------------------------------------- claims
Range(s) == {s[k] : k \in 1..Len(s)}
Tags(s) == [k \in 1..Len(s) |-> s[k].tag]
\* C1: the envelopes queued by send() are handed to a transport in the order
\* they were queued, each exactly once, and only on a transport that has
\* delivered server-authenticated: the queued envelopes handed so far,
\* followed by those still queued, are exactly the envelopes ever queued.
C1_QueueFifoOnce ==
    LET flushed == SelectSeq(s_log, LAMBDA r : r.tag \in Range(s_queued)) IN
    /\ Tags(flushed) \o Tags(messageQueue) = s_queued
    /\ \A k \in 1..Len(flushed) : flushed[k].authed

C1_Witness ==
    /\ Len(s_queued) >= 2
    /\ messageQueue = <<>>
    /\ Tags(s_log) = s_queued
    /\ s_socks[s_socket].closeCalls = 0
    /\ \E i \in Slots : i # s_socket /\ s_socks[i].closeCalls > 0

\* C2: send() hands the envelope to the current transport at once and leaves
\* the queue alone when that transport is OPEN and the stream authenticated;
\* otherwise it appends the envelope to the tail of the queue and hands
\* nothing to any transport.  It is one step in both cases.
C2_SendDirectOrQueue ==
    [][\A ch \in Channels, e \in SentEvents, m \in Messages :
         ServerSend(ch, e, m) =>
           LET payload == Env("emit", e, m, ch, s_nsend + 1) IN
           IF s_socks[s_socket].ready = "OPEN" /\ isAuthenticated
           THEN /\ messageQueue' = messageQueue
                /\ s_socks' = [s_socks EXCEPT ![s_socket].wire = Append(@, payload)]
           ELSE /\ messageQueue' = Append(messageQueue, payload)
                /\ s_socks' = s_socks
                /\ s_log' = s_log]_vars

C2_Witness ==
    /\ s_queued # <<>>
    /\ \E k \in 1..Len(s_log) : s_log[k].tag \notin Range(s_queued)

\* C3: a second disconnect() makes no further close() call on a transport
\* and arms no reconnect timer.
C3_SecondDisconnectNoClose ==
    [][(ClientDisconnect /\ c_ndisc >= 1) =>
         /\ \A i \in Slots : c_socks'[i].closeCalls = c_socks[i].closeCalls
         /\ c_timers' = c_timers]_vars

\* C4: once disconnect() has been called, the stream's transport is never
\* again one that is connecting or open: no new transport is created.
C4_DisconnectTerminal ==
    c_ndisc > 0 => c_socks[c_socket].ready \in {"CLOSING", "CLOSED"}

\* C8: receive(name, cb) binds cb to name and leaves the other bindings;
\* nothing else changes a binding; a message envelope invokes exactly the
\* callback bound to its event, with its payload, or none when the event is
\* unbound, and changes nothing else of the stream.
C8_Routing ==
    /\ [][\A e \in Events, cb \in Callbacks :
            ClientReceive(e, cb) => listeners' = [listeners EXCEPT ![e] = cb]]_vars
    /\ [][listeners' # listeners =>
            \E e \in Events, cb \in Callbacks : ClientReceive(e, cb)]_vars
    /\ [][\A i \in Slots, raw \in ClientInbound :
            (ClientTransportMessage(i, raw) /\ raw.type = "message" /\ ~c_socks[i].aborted) =>
              /\ Cardinality(c_called') <= 1
              /\ c_called' = IF listeners[raw.event] = NoCb THEN {}
                              ELSE {<<listeners[raw.event], raw.payload>>}
              /\ UNCHANGED <<c_socket, c_socks, listeners, c_timers, c_ndisc>>]_vars

C8_Witness ==
    /\ listeners["message"] = "cb2"
    /\ listeners["other"] = "cb1"
    /\ c_called = {<<"cb2", "test-success">>}

\* C9: every transport a stream no longer refers to has had its listeners
\* removed, so an event on it changes nothing of the stream: no callback, no
\* reconnect timer, no change of isAuthenticated or of the queue.
Superseded(socks, cur) == {i \in Slots : i # cur /\ socks[i].ready # "NONE"}

C9_SupersededSilent ==
    /\ [](\A i \in Superseded(c_socks, c_socket) : c_socks[i].aborted)
    /\ [](\A i \in Superseded(s_socks, s_socket) : s_socks[i].aborted)
    /\ [][\A i \in Superseded(c_socks, c_socket) :
            (\/ ClientTransportOpen(i) \/ ClientTransportError(i) \/ ClientTransportClose(i)
             \/ \E raw \in ClientInbound : ClientTransportMessage(i, raw)) =>
              UNCHANGED <<c_socket, listeners, c_timers, c_called, c_out, c_ndisc>>]_vars
    /\ [][\A i \in Superseded(s_socks, s_socket) :
            (\/ ServerTransportOpen(i) \/ ServerTransportError(i) \/ ServerTransportClose(i)
             \/ \E raw \in ServerInbound : ServerTransportMessage(i, raw)) =>
              UNCHANGED <<s_socket, isAuthenticated, messageQueue, s_out, s_nsend, s_queued, s_log>>]_vars

C9_Witness ==
    /\ isAuthenticated
    /\ s_socks[s_socket].ready = "OPEN"
    /\ \E i \in Superseded(s_socks, s_socket) : s_socks[i].ready = "CLOSING" /\ s_socks[i].authed

\* C10: an inbound envelope that is malformed or of an unexpected type is
\* logged and dropped by the message listener of either stream: the listener
\* raises no error and leaves the stream's state as it was.
Unexpected == {"#garbage", "#null", "unknown"}

C10_MalformedLoggedAndDropped ==
    /\ [][\A i \in Slots, raw \in ClientInbound :
            (ClientTransportMessage(i, raw) /\ raw.type \in Unexpected /\ ~c_socks[i].aborted) =>
              /\ c_out' = "logged"
              /\ UNCHANGED <<c_socket, c_socks, listeners, c_timers, c_ndisc>>]_vars
    /\ [][\A i \in Slots, raw \in ServerInbound :
            (ServerTransportMessage(i, raw) /\ raw.type \in Unexpected /\ ~s_socks[i].aborted) =>
              /\ s_out' = "logged"
              /\ UNCHANGED <<s_socket, s_socks, isAuthenticated, messageQueue>>]_vars

\* C6: a watchdog tick that finds the transport not OPEN or the stream not
\* authenticated closes the old transport, removes its listeners and creates
\* a new one; so a transport that is open and not authenticated does not
\* stay so, and the stream is authenticated again and again.
C6_WatchdogReconnects ==
    /\ [][(ServerWatchdog /\ (s_socks[s_socket].ready # "OPEN" \/ ~isAuthenticated)
            /\ s_socks' # s_socks) =>
            /\ s_socks'[s_socket'] = NewSocket
            /\ ~isAuthenticated'
            /\ messageQueue' = messageQueue
            /\ s_socket' # s_socket
            /\ IF s_socks[s_socket].ready = "CLOSED"
               THEN s_socks'[s_socket] = FreeSlot
               ELSE /\ s_socks'[s_socket].aborted
                    /\ s_socks'[s_socket].ready = "CLOSING"
                    /\ s_socks'[s_socket].closeCalls = s_socks[s_socket].closeCalls + 1]_vars
    /\ (s_socks[s_socket].ready = "OPEN" /\ ~isAuthenticated)
          ~> (isAuthenticated \/ s_socks[s_socket].ready # "OPEN")
    /\ []<>isAuthenticated

C6_Witness ==
    /\ isAuthenticated
    /\ s_socks[s_socket].ready = "OPEN"
    /\ \E i \in Superseded(s_socks, s_socket) :
          /\ s_socks[i].ready = "CLOSING"
          /\ s_socks[i].wire # <<>>
          /\ ~s_socks[i].authed

\* C5: after a close event on the client's transport that the application
\* does not answer with disconnect(), the reconnect timer creates a new
\* transport, its open listener sends the authenticate envelope on it, and
\* the connection is authenticated at the relay again; no step but receive()
\* changes a binding, so a message on the new transport invokes the callback
\* bound before the close.
C5_ReconnectKeepsBindings ==
    /\ (c_timers > 0 /\ c_ndisc = 0) ~> (c_socks[c_socket].rauth \/ c_ndisc > 0)
    /\ [][\A i \in Slots :
            (ClientTransportOpen(i) /\ ~c_socks[i].aborted) =>
              /\ i = c_socket
              /\ c_socks'[i].wire = <<Env("authenticate", "", Token, "", 0)>>]_vars
    /\ [][(ClientTimerFires \/ \E i \in Slots : ClientTransportClose(i) \/ ClientTransportOpen(i))
            => listeners' = listeners]_vars
    /\ [][\A i \in Slots, raw \in ClientInbound :
            (ClientTransportMessage(i, raw) /\ raw.type = "message"
               /\ ~c_socks[i].aborted /\ listeners[raw.event] # NoCb) =>
              c_called' = {<<listeners[raw.event], raw.payload>>}]_vars

\* C11: a close event on the client's transport whose listeners are still
\* bound arms exactly one reconnect timer, and an expiring timer runs one
\* connect(); nothing counts or limits the attempts, so whenever the current
\* transport is closed and disconnect() has not been called, a new transport
\* is eventually created.
C11_ReconnectUnbounded ==
    /\ [][\A i \in Slots :
            (ClientTransportClose(i) /\ ~c_socks[i].aborted) =>
              /\ i = c_socket
              /\ c_timers' = c_timers + 1
              /\ c_socket' = c_socket]_vars
    /\ [][ClientTimerFires =>
            /\ c_timers' = c_timers - 1
            /\ c_socket' # c_socket
            /\ c_socks'[c_socket'] = NewSocket
            /\ \A i \in Slots \ {c_socket'} : c_socks'[i].ready \notin {"CONNECTING", "OPEN"}]_vars
    /\ [](c_timers <= 1)
    /\ [](c_ndisc = 0 => (c_timers = 1 <=> c_socks[c_socket].ready = "CLOSED"))
    /\ (c_socks[c_socket].ready = "CLOSED" /\ c_ndisc = 0)
          ~> (c_socks[c_socket].ready = "CONNECTING" \/ c_ndisc > 0)

C11_Witness ==
    /\ c_ndisc = 0
    /\ c_socket = 2
    /\ c_socks[c_socket].ready = "CLOSED"
    /\ c_timers = 1

\* C12 as stated: in a browser, createServerStream() and createToken() both
\* throw to their caller, and nothing has been created or signed.
C12_ThrowsSynchronously ==
    /\ [][(CreateServerStream /\ windowDefined) =>
            /\ s_ctor' = "threw"
            /\ s_made' = {}
            /\ ServerAbsent']_vars
    /\ [][(CreateToken /\ windowDefined) =>
            /\ t_ctor' = "threw"
            /\ t_signed' = 0]_vars

\* C12: in a browser, createServerStream() throws to its caller and
\* createToken() returns a promise that is rejected; in both cases nothing
\* has been created: no transport, no controller, no queue, no watchdog
\* interval, and no token is signed.
C12_UntrustedContextFails ==
    /\ [][(CreateServerStream /\ windowDefined) =>
            /\ s_ctor' = "threw"
            /\ s_made' = {}
            /\ ServerAbsent']_vars
    /\ [][(CreateToken /\ windowDefined) =>
            /\ t_ctor' = "rejected"
            /\ t_signed' = 0]_vars
    /\ [](windowDefined => s_made = {} /\ ServerAbsent /\ t_signed = 0)

C12_Witness ==
    /\ windowDefined
    /\ s_ctor = "threw"
    /\ t_ctor = "rejected"
    /\ s_made = {}
    /\ ServerAbsent
    /\ t_signed = 0

\* C13: a send() of the stateless stream makes one network call; when the
\* response has a non-2xx status, the call has logged the failure, has made
\* no further network call, and its promise has resolved.
C13_Non2xxLoggedNotThrown ==
    \A k \in HttpCalls :
        /\ h_calls[k].pc # "idle" => h_calls[k].fetches = 1
        /\ (h_calls[k].status = "non2xx" /\ h_calls[k].pc \in {"resolved", "rejected"}) =>
              /\ h_calls[k].logged
              /\ h_calls[k].pc = "resolved"

\* C14: on every transport of the server stream the first envelope handed
\* over is server-authenticate; an emit envelope, flushed from the queue or
\* sent directly, is handed only to a transport that has delivered
\* server-authenticated before; and isAuthenticated is true only when the
\* current transport itself has delivered server-authenticated.
C14_HandshakeOrder ==
    /\ \A i \in Slots :
          /\ s_socks[i].wire # <<>> => s_socks[i].wire[1].type = "server-authenticate"
          /\ \A k \in 2..Len(s_socks[i].wire) : s_socks[i].wire[k].type = "emit"
          /\ Len(s_socks[i].wire) >= 2 => s_socks[i].authed
    /\ \A k \in 1..Len(s_log) : s_log[k].authed
    /\ isAuthenticated => s_socks[s_socket].authed

C14_Witness ==
    /\ s_socket = 2
    /\ isAuthenticated
    /\ Len(s_socks[2].wire) = 3
    /\ s_queued = <<1>>
    /\ Len(s_log) = 2

\* C15 as stated: an envelope is appended to the queue only while
\* isAuthenticated is false, handling server-authenticated empties the
\* queue, and the queue is empty whenever isAuthenticated is true.
C15_QueueEmptyWhenAuthenticated ==
    /\ [][Len(messageQueue') > Len(messageQueue) => ~isAuthenticated]_vars
    /\ [][(\E i \in Slots, raw \in ServerInbound :
              /\ ServerTransportMessage(i, raw)
              /\ raw.type = "server-authenticated"
              /\ ~s_socks[i].aborted) => messageQueue' = <<>>]_vars
    /\ [](isAuthenticated => messageQueue = <<>>)

\* C15: an envelope is appended to the queue only while isAuthenticated is
\* false or the current transport is not OPEN, handling server-authenticated
\* empties the queue, and the queue is empty whenever isAuthenticated is
\* true and the current transport is OPEN.
C15_QueueDiscipline ==
    /\ [][Len(messageQueue') > Len(messageQueue) =>
            /\ ~(isAuthenticated /\ s_socks[s_socket].ready = "OPEN")
            /\ \E ch \in Channels, e \in SentEvents, m \in Messages : ServerSend(ch, e, m)]_vars
    /\ [][(\E i \in Slots, raw \in ServerInbound :
              /\ ServerTransportMessage(i, raw)
              /\ raw.type = "server-authenticated"
              /\ ~s_socks[i].aborted) => messageQueue' = <<>>]_vars
    /\ []((isAuthenticated /\ s_socks[s_socket].ready = "OPEN") => messageQueue = <<>>)

C15_Witness ==
    /\ isAuthenticated
    /\ s_socks[s_socket].ready = "OPEN"
    /\ messageQueue = <<>>
    /\ Len(s_queued) = 2
    /\ Tags(s_log) = s_queued

\* C16: a watchdog tick, with the connect() it may run, and the open, error
\* and close events of any transport leave the queue as it is; the queue
\* changes only by send() appending at its tail or by the handling of
\* server-authenticated on the current transport, which hands every queued
\* envelope, in order, to that transport and leaves the queue empty.
C16_QueueSurvivesReconnect ==
    /\ [][(\/ ServerWatchdog
           \/ \E i \in Slots : \/ ServerTransportOpen(i) \/ ServerTransportError(i)
                                \/ ServerTransportClosing(i) \/ ServerTransportClose(i))
            => messageQueue' = messageQueue]_vars
    /\ [][messageQueue' # messageQueue =>
            \/ \E ch \in Channels, e \in SentEvents, m \in Messages :
                  /\ ServerSend(ch, e, m)
                  /\ messageQueue' = Append(messageQueue, Env("emit", e, m, ch, s_nsend + 1))
            \/ /\ ServerTransportMessage(s_socket, Env("server-authenticated", "", "", "", 0))
               /\ messageQueue' = <<>>
               /\ s_socks'[s_socket].wire = s_socks[s_socket].wire \o messageQueue]_vars

C16_Witness ==
    /\ s_socket = 1
    /\ s_socks[2].ready = "CLOSING"
    /\ s_socks[2].aborted
    /\ Len(messageQueue) = 2
    /\ Tags(messageQueue) = s_queued

\* C17: in the client and in the server stream, whatever connect, open,
\* message, error, close, watchdog, timer and disconnect steps have run, a
\* transport that is connecting or open and still has its listeners bound is
\* the stream's current transport: there is at most one.
Live(socks) == {i \in Slots : socks[i].ready \in {"CONNECTING", "OPEN"} /\ ~socks[i].aborted}

C17_OneLiveConnection ==
    /\ Live(c_socks) \subseteq {c_socket}
    /\ Live(s_socks) \subseteq {s_socket}
    /\ Cardinality(Live(c_socks)) <= 1
    /\ Cardinality(Live(s_socks)) <= 1

C17_Witness ==
    /\ s_socket = 2
    /\ s_socks[1].ready = "CLOSING"
    /\ s_socks[1].wire # <<>>
    /\ s_socks[2].ready = "OPEN"
    /\ Live(s_socks) = {2}

\* An error envelope is logged, invokes no callback and leaves the stream
\* and its transport as they were.
ErrorEnvelopeLogged ==
    [][\A i \in Slots, raw \in ClientInbound :
         (ClientTransportMessage(i, raw) /\ raw.type = "error" /\ ~c_socks[i].aborted) =>
           /\ c_out' = "logged"
           /\ c_called' = {}
           /\ c_socks'[i].ready = c_socks[i].ready
           /\ ~c_socks'[i].aborted
           /\ UNCHANGED <<c_socket, listeners, c_timers, c_ndisc>>]_vars

\* C18 as stated: an error envelope is logged and invokes no callback, and
\* when it arrived on a connection that was not authenticated, a new
\* transport is created afterwards (unless disconnect() is called).
C18_ErrorThenReconnect ==
    /\ ErrorEnvelopeLogged
    /\ (c_socks[c_socket].rejected /\ c_ndisc = 0)
          ~> (c_socks[c_socket].ready = "CONNECTING" \/ c_ndisc > 0)

\* C18: an error envelope is logged and invokes no callback; it schedules
\* nothing itself, and when it arrived on a connection that was not
\* authenticated, the close event of that transport still arms the reconnect
\* timer, after which a new transport is created (unless disconnect() is
\* called).
C18_ErrorLoggedReconnectOnClose ==
    /\ ErrorEnvelopeLogged
    /\ [][\A i \in Slots :
            (ClientTransportClose(i) /\ c_socks[i].rejected /\ ~c_socks[i].aborted) =>
              c_timers' = c_timers + 1]_vars
    /\ (c_socks[c_socket].rejected /\ c_socks[c_socket].ready = "CLOSED" /\ c_ndisc = 0)
          ~> (c_socks[c_socket].ready = "CONNECTING" \/ c_ndisc > 0)

C18_Witness ==
    /\ c_socks[c_socket].rejected
    /\ c_socks[c_socket].rpos = 1
    /\ ~c_socks[c_socket].rauth
    /\ c_socks[c_socket].ready = "CLOSED"
    /\ c_out = "logged"
    /\ c_timers = 1
    /\ c_ndisc = 0

\* The atoms a party can read out of a term it receives: an atom itself,
\* the content of an encryption (by a party holding the key); a keyed digest
\* and a key-exchange secret give away neither their key nor their data.
AtomsOf(term) == IF term.kind \in {"atom", "aes"} THEN {term.data} ELSE {}

FieldsOf(msg) == {msg.fields[k] : k \in 1..Len(msg.fields)}

\* C19: no message the legacy client emits lets the password be read out of
\* it: secret-id carries the encrypted id, challenge the id, authenticate the
\* id, the channel and the keyed digest of the challenge; an authenticate
\* message has been emitted only if a challenge-response event was handled,
\* and one is handled only if an auth event was handled before.
C19_PasswordNeverSent ==
    /\ \A k \in 1..Len(l_sent) :
          /\ \A f \in FieldsOf(l_sent[k]) : Password \notin AtomsOf(f)
          /\ l_sent[k].event \in {"secret-id", "challenge", "authenticate"}
          /\ l_sent[k].event = "secret-id" =>
                \E s \in ServerSecrets :
                    l_sent[k].fields = <<EncryptValue(LegacyId, ComputeSecret(s))>>
          /\ l_sent[k].event = "challenge" => l_sent[k].fields = <<Atom(LegacyId)>>
          /\ l_sent[k].event = "authenticate" =>
                /\ \E c \in Challenges :
                      l_sent[k].fields = <<Atom(LegacyId), Atom(LegacyChannel), Hmac(Password, c)>>
                /\ l_cr = "handled"
                /\ \E j \in 1..(k - 1) : l_sent[j].event = "challenge"
    /\ l_cr = "handled" => l_auth
    /\ l_handlers > 0 => l_auth

C19_Witness ==
    /\ Len(l_sent) = 5
    /\ l_sent[1].event = "secret-id"
    /\ l_sent[2].event = "challenge"
    /\ l_sent[3].event = "challenge"
    /\ l_sent[4].event = "authenticate"
    /\ l_sent[5].event = "authenticate"
    /\ l_cr = "handled"

\* C20: once disconnect() has been called, no message event on any transport
\* runs a listener that invokes a callback registered with receive().
C20_NoCallbackAfterDisconnect ==
    [][c_ndisc > 0 =>
         ~\E i \in Slots, raw \in ClientInbound :
             /\ ClientTransportMessage(i, raw)
             /\ ~c_socks[i].aborted
             /\ c_called' # {}]_vars

\* C21: at most one reconnect timer of the client is pending; a timer is
\* armed only by the close event of the current transport, with its listeners
\* bound, when none is pending; connect() runs only when a timer expires, and
\* each expiry consumes the timer and creates one transport; disconnect()
\* arms and consumes none.
C21_OneTimerPending ==
    /\ [](c_timers \in {0, 1})
    /\ [][c_timers' > c_timers =>
            /\ c_timers = 0
            /\ c_timers' = 1
            /\ ClientTransportClose(c_socket)
            /\ ~c_socks[c_socket].aborted]_vars
    /\ [][(c_socket' # c_socket \/ c_timers' < c_timers) =>
            /\ ClientTimerFires
            /\ c_timers = 1
            /\ c_timers' = 0
            /\ c_socks'[c_socket'] = NewSocket
            /\ Cardinality({i \in Slots : c_socks'[i].ready = "CONNECTING"}) = 1]_vars
    /\ [][ClientDisconnect => c_timers' = c_timers /\ c_socket' = c_socket]_vars

C21_Witness ==
    /\ c_ndisc = 1
    /\ c_socket = 2
    /\ c_socks[2].ready = "CLOSED"
    /\ ~c_socks[2].aborted
    /\ c_timers = 1

\* C22: a watchdog tick that finds the current transport OPEN and the stream
\* authenticated leaves the server stream as it is: the transports with their
\* listeners, isAuthenticated and the queue.
C22_HealthyTickNoOp ==
    [][(ServerWatchdog /\ s_socks[s_socket].ready = "OPEN" /\ isAuthenticated) =>
         UNCHANGED <<s_socket, s_socks, isAuthenticated, messageQueue, s_out, s_nsend, s_queued, s_log>>]_vars

C22_Witness ==
    /\ s_socket = 2
    /\ s_socks[2].ready = "OPEN"
    /\ ~s_socks[2].aborted
    /\ isAuthenticated
    /\ ENABLED ServerWatchdog
    /\ Len(s_log) = 2

\* C23: once an auth event has been handled, every challenge-response event
\* makes the legacy client emit exactly one authenticate message.
C23_OneAuthenticatePerChallenge ==
    [][\A challenge \in Challenges :
         (LegacyOnChallengeResponse(challenge) /\ l_auth) =>
           l_sent' = Append(l_sent, Emit("authenticate",
                       <<Atom(LegacyId), Atom(LegacyChannel), ChallengeResult(Password, challenge)>>))]_vars

EmitRead ==
    \E j \in Slots : \E k \in 1..s_socks[j].rpos : s_socks[j].wire[k].type = "emit"

\* C7: in the run of the test (server stream, client stream with its callback
\* bound, one send), once the relay has read the emit and nothing is in flight
\* towards the client, the client's callback has been invoked exactly with
\* the message, whatever the order in which the two connections opened and
\* authenticated.
C7_EndToEndDelivery ==
    (EmitRead /\ \A i \in Slots : c_socks[i].inbox = <<>>)
        => c_called = {<<"cb1", "test-success">>}

====
